---- MODULE Spec2Model ----
(***************************************************************************)
(* Tile providers of dezoomify-rs: the generic grid-discovery engine       *)
(* (src/src/generic/mod.rs) and the declarative tile-set provider          *)
(* (src/src/custom_yaml/mod.rs), each behind its dezoomer gate.            *)
(***************************************************************************)
EXTENDS Integers, Sequences, FiniteSets, TLC

VARIABLES
    uri,        \* DezoomerInput.uri, tokenised: placeholders and other pieces
    contents,   \* DezoomerInput.contents (used by the custom dezoomer only)
    gate,       \* outcome of zoom_levels: "pending", "ok" or the error kind
    levels,     \* the ZoomLevels returned by the gate (empty until accepted)
    previous,   \* argument of the last next_tiles call (the host loop variable)
    tiles,      \* Vec<TileReference> returned by the last next_tiles call
    cells,      \* the (x, y) handed to tile_ref_at for each element of tiles
    panicked,   \* a Rust panic was raised (arithmetic overflow, expect)
    first_ok,   \* history: tile_size carried by the first successful outcome
    pc,         \* position of the host loop: "idle", "call", "fetch", "done"
    avail,      \* cells the remote server can deliver
    all_tiles,  \* references of available tiles the host collected
    all_cells,  \* their cells
    batches,    \* history: cells of every batch returned so far
    calls       \* history: number of next_tiles calls made by the host loop

vars == <<uri, contents, gate, levels, previous, tiles, cells, panicked,
          first_ok, pc, avail, all_tiles, all_cells, batches, calls>>

\* ------------------------------------------------------------------ bounds
MaxUriLen == 2      \* pieces in an identifier
MaxX == 3           \* cap on current_x under arbitrary calls
MaxY == 2           \* cap on current_y under arbitrary calls
MaxW == 3           \* columns of the box that holds the available cells
MaxH == 2           \* rows of that box
MaxTiles == 2       \* items of a declared tile set
MaxCalls == 3       \* calls made on a declarative provider

\* ------------------------------------------------------------ value types
None == [is_some |-> FALSE]
Some(v) == [is_some |-> TRUE, val |-> v]
unwrap_or(opt, default) == IF opt.is_some THEN opt.val ELSE default

Vec2d(x, y) == [x |-> x, y |-> y]

\* component-wise product of two Vec2d
Vec2dMul(a, b) == Vec2d(a.x * b.x, a.y * b.y)

TileReference(url, position) == [url |-> url, position |-> position]

TileFetchResult(count, successes, tile_size) ==
    [count |-> count, successes |-> successes, tile_size |-> tile_size]

\* the host's batch predicate: every tile of the batch was fetched
is_success(res) == res.successes = res.count

StageInit == [tag |-> "Init"]
StageFirstLine(current_x) == [tag |-> "FirstLine", current_x |-> current_x]
StageNextLines(max_x, current_y) ==
    [tag |-> "NextLines", max_x |-> max_x, current_y |-> current_y]

ZoomLevel(url_template, stage, tile_size) ==
    [url_template |-> url_template, stage |-> stage, tile_size |-> tile_size]

\* ------------------------------------------------------------- strings
\* A string is kept as the sequence of its pieces: each placeholder is one
\* piece, and so is each stretch of other characters.
UriPieces == {"{{X}}", "{{Y}}", ","}
Uris == UNION {[1..n -> UriPieces] : n \in 0..MaxUriLen}

\* str::contains for a placeholder
contains(s, pat) == \E i \in 1..Len(s) : s[i] = pat

\* str::replace for a placeholder
replace(s, from, to) == [i \in 1..Len(s) |-> IF s[i] = from THEN to ELSE s[i]]

\* u32::to_string
to_string(n) == ToString(n)

RECURSIVE concat(_)
concat(s) == IF s = <<>> THEN "" ELSE Head(s) \o concat(Tail(s))

\* 0..=hi as the sequence of its values
RangeInclusive(lo, hi) == [i \in 1..(hi - lo + 1) |-> lo + i - 1]

\* u32 subtraction: None when the difference is negative (arithmetic overflow)
checked_sub(a, b) == IF a >= b THEN Some(a - b) ELSE None

\* ------------------------------------------------- generic::ZoomLevel
tile_url_at(self, x, y) ==
    concat(replace(replace(self.url_template, "{{X}}", to_string(x)),
                   "{{Y}}", to_string(y)))

\* forgets to scale the cell by the tile size
tile_ref_at_Unscaled(self, x, y) ==
    TileReference(tile_url_at(self, x, y), Vec2d(x, y))

tile_ref_at(self, x, y) ==
    LET tile_size == unwrap_or(self.tile_size, Vec2d(0, 0))
        position == Vec2dMul(Vec2d(x, y), tile_size)
    IN  TileReference(tile_url_at(self, x, y), position)

\* what one next_tiles call yields: the engine afterwards, the cells asked
\* for, and whether the call panicked
Step(self, cs) == [self |-> self, cells |-> cs, panic |-> FALSE]
Panic(self) == [self |-> self, cells |-> <<>>, panic |-> TRUE]

\* starts every line at column 1
LineCells_FromOne(max_x, y) ==
    LET xs == RangeInclusive(1, max_x)
    IN  [i \in 1..Len(xs) |-> <<xs[i], y>>]

\* runs every line one column too far
LineCells_OneMore(max_x, y) ==
    LET xs == RangeInclusive(0, max_x + 1)
    IN  [i \in 1..Len(xs) |-> <<xs[i], y>>]

\* the cells of one whole line: (0..=max_x).map(|x| (x, y))
LineCells(max_x, y) ==
    LET xs == RangeInclusive(0, max_x)
    IN  [i \in 1..Len(xs) |-> <<xs[i], y>>]

\* a first request that also rewinds the engine
FirstRequest_Rewinds(self) ==
    Step([self EXCEPT !.stage = StageInit], << <<0, 0>> >>)

\* (None, _)
FirstRequest(self) == Step(self, << <<0, 0>> >>)

\* a failed first request that still leaves Init
FirstRequestFailed_LeavesInit(self, res) ==
    Step([self EXCEPT !.stage = StageFirstLine(1)], <<>>)

\* (Some(res), Stage::Init) if !res.is_success()
FirstRequestFailed(self, res) == Step(self, <<>>)

\* starts the first line at column 0
InitToFirstLine_FromZero(self, res) ==
    Step([self EXCEPT !.stage = StageFirstLine(0), !.tile_size = res.tile_size],
         << <<0, 0>> >>)

\* (Some(TileFetchResult { tile_size, .. }), Stage::Init)
InitToFirstLine(self, res) ==
    Step([self EXCEPT !.stage = StageFirstLine(1), !.tile_size = res.tile_size],
         << <<1, 0>> >>)

\* advances by two columns
AdvanceFirstLine_ByTwo(self, res) ==
    LET current_x == self.stage.current_x + 2
    IN  Step([self EXCEPT !.stage = StageFirstLine(current_x)],
             << <<current_x, 0>> >>)

\* (Some(res), &Stage::FirstLine { current_x }) if res.is_success()
AdvanceFirstLine(self, res) ==
    LET current_x == self.stage.current_x + 1
    IN  Step([self EXCEPT !.stage = StageFirstLine(current_x)],
             << <<current_x, 0>> >>)

\* takes the failed column as the last column
EndOfFirstLine_KeepsColumn(self, res) ==
    LET max_x == self.stage.current_x
    IN  Step([self EXCEPT !.stage = StageNextLines(max_x, 1)],
             LineCells(max_x, 1))

\* (Some(_), &Stage::FirstLine { current_x })
EndOfFirstLine(self, res) ==
    LET max_x == checked_sub(self.stage.current_x, 1)
    IN  IF ~max_x.is_some THEN Panic(self)
        ELSE Step([self EXCEPT !.stage = StageNextLines(max_x.val, 1)],
                  LineCells(max_x.val, 1))

\* takes the tile size of every successful line
AdvanceNextLine_TakesSize(self, res) ==
    LET max_x == self.stage.max_x
        current_y == self.stage.current_y + 1
    IN  Step([self EXCEPT !.stage = StageNextLines(max_x, current_y),
                          !.tile_size = res.tile_size],
             LineCells(max_x, current_y))

\* asks for the same line again instead of the next one
AdvanceNextLine_SameRow(self, res) ==
    Step(self, LineCells(self.stage.max_x, self.stage.current_y))

\* (Some(res), &Stage::NextLines { current_y, max_x }) if res.is_success()
AdvanceNextLine(self, res) ==
    LET max_x == self.stage.max_x
        current_y == self.stage.current_y + 1
    IN  Step([self EXCEPT !.stage = StageNextLines(max_x, current_y)],
             LineCells(max_x, current_y))

\* answers the failure of a line by asking for that line again
EndOfImage_Retries(self, res) ==
    Step(self, LineCells(self.stage.max_x, self.stage.current_y))

\* (Some(_), Stage::NextLines { .. })
EndOfImage(self, res) == Step(self, <<>>)

\* the match of next_tiles, arms tried in source order
Match(self, prev) ==
    IF ~prev.is_some THEN FirstRequest(self)
    ELSE IF self.stage.tag = "Init" /\ ~is_success(prev.val)
        THEN FirstRequestFailed(self, prev.val)
    ELSE IF self.stage.tag = "Init" THEN InitToFirstLine(self, prev.val)
    ELSE IF self.stage.tag = "FirstLine" /\ is_success(prev.val)
        THEN AdvanceFirstLine(self, prev.val)
    ELSE IF self.stage.tag = "FirstLine" THEN EndOfFirstLine(self, prev.val)
    ELSE IF self.stage.tag = "NextLines" /\ is_success(prev.val)
        THEN AdvanceNextLine(self, prev.val)
    ELSE EndOfImage(self, prev.val)

\* ZoomLevel::next_tiles: the engine afterwards and the references returned,
\* each built by tile_ref_at on the engine as the arm left it
next_tiles(self, prev) ==
    LET m == Match(self, prev)
    IN  [self |-> m.self, cells |-> m.cells, panic |-> m.panic,
         tiles |-> [i \in 1..Len(m.cells) |->
                       tile_ref_at(m.self, m.cells[i][1], m.cells[i][2])]]

\* ------------------------------------------------ generic::GenericDezoomer
\* zoom_levels: Err(WrongDezoomer) unless the uri holds {{X}}, else one level
generic_zoom_levels(data_uri) ==
    IF ~contains(data_uri, "{{X}}")
    THEN [gate |-> "wrong_dezoomer", levels |-> <<>>]
    ELSE [gate |-> "ok", levels |-> <<ZoomLevel(data_uri, StageInit, None)>>]

\* ----------------------------------------------------------------- inputs
TileSizes == {Vec2d(4, 5), Vec2d(1, 2)}
OptTileSizes == {None} \cup {Some(ts) : ts \in TileSizes}
Outcomes ==
    {TileFetchResult(c, s, ts) : c \in 1..2, s \in 0..1, ts \in OptTileSizes}
Arguments == {None} \cup {Some(res) : res \in Outcomes}

\* history of the first successful outcome's tile size
NextFirstOk(prev) ==
    IF ~first_ok.is_some /\ prev.is_some /\ is_success(prev.val)
    THEN Some(prev.val.tile_size) ELSE first_ok

\* the caps that keep the indices bounded under arbitrary calls
WithinCaps(self, prev) ==
    prev.is_some /\ is_success(prev.val) =>
        /\ self.stage.tag = "FirstLine" => self.stage.current_x < MaxX
        /\ self.stage.tag = "NextLines" => self.stage.current_y < MaxY

\* ------------------------------------------------------------ actions
\* GenericDezoomer::zoom_levels on the input
GenericZoomLevels ==
    /\ gate = "pending"
    /\ LET r == generic_zoom_levels(uri)
       IN  gate' = r.gate /\ levels' = r.levels
    /\ UNCHANGED <<uri, contents, previous, tiles, cells, panicked, first_ok,
                   pc, avail, all_tiles, all_cells, batches, calls>>

\* one call of next_tiles on the level, with any argument
NextTiles(prev) ==
    /\ gate = "ok" /\ ~panicked
    /\ WithinCaps(levels[1], prev)
    /\ LET r == next_tiles(levels[1], prev)
       IN  /\ levels' = <<r.self>>
           /\ tiles' = r.tiles
           /\ cells' = r.cells
           /\ panicked' = r.panic
    /\ previous' = prev
    /\ first_ok' = NextFirstOk(prev)
    /\ UNCHANGED <<uri, contents, gate, pc, avail, all_tiles, all_cells,
                   batches, calls>>

AnyCall == \E prev \in Arguments : NextTiles(prev)

Init ==
    /\ uri \in Uris
    /\ contents = None
    /\ gate = "pending"
    /\ levels = <<>>
    /\ previous = None
    /\ tiles = <<>>
    /\ cells = <<>>
    /\ panicked = FALSE
    /\ first_ok = None
    /\ pc = "idle"
    /\ avail = {}
    /\ all_tiles = <<>>
    /\ all_cells = <<>>
    /\ batches = <<>>
    /\ calls = 0

Next == GenericZoomLevels \/ AnyCall

Spec == Init /\ [][Next]_vars

\* ------------------------------------------------------------ the host
\* The template of test_generic_dezoomer, "{{X}},{{Y}}"
TestUri == <<"{{X}}", ",", "{{Y}}">>

\* the rectangle of W columns and H rows
Rect(W, H) == (0..(W - 1)) \X (0..(H - 1))

\* what the server may hold: a rectangle within MaxW x MaxH (possibly empty),
\* or such a rectangle whose origin tile is missing
Grids ==
    {Rect(W, H) : W \in 0..MaxW, H \in 0..MaxH}
        \cup {Rect(W, H) \ {<<0, 0>>} : W \in 0..MaxW, H \in 0..MaxH}

\* the elements of xs whose cell is available, in order (the test's filter)
RECURSIVE Available(_, _, _)
Available(xs, cs, A) ==
    IF xs = <<>> THEN <<>>
    ELSE (IF Head(cs) \in A THEN <<Head(xs)>> ELSE <<>>)
             \o Available(Tail(xs), Tail(cs), A)

\* the closure test_generic_dezoomer hands to apply_to_tiles, reporting size ts
Fetch(ts) ==
    LET successes == Available(tiles, cells, avail)
    IN  /\ previous' = Some(TileFetchResult(Len(tiles), Len(successes), ts))
        /\ all_tiles' = all_tiles \o successes
        /\ all_cells' = all_cells \o Available(cells, cells, avail)

\* apply_to_tiles, loop head: ask the level for the next batch, stop when empty
ApplyNextTiles ==
    /\ gate = "ok" /\ pc = "call"
    /\ LET r == next_tiles(levels[1], previous)
       IN  /\ levels' = <<r.self>>
           /\ tiles' = r.tiles
           /\ cells' = r.cells
           /\ panicked' = r.panic
           /\ batches' = Append(batches, r.cells)
           /\ pc' = IF r.panic THEN "panic"
                    ELSE IF r.tiles = <<>> THEN "done" ELSE "fetch"
    /\ first_ok' = NextFirstOk(previous)
    /\ calls' = calls + 1
    /\ UNCHANGED <<uri, contents, gate, previous, avail, all_tiles, all_cells>>

\* apply_to_tiles, loop body: fetch the batch and keep its outcome
ApplyFetch ==
    /\ pc = "fetch"
    /\ \E ts \in OptTileSizes : Fetch(ts)
    /\ pc' = "call"
    /\ UNCHANGED <<uri, contents, gate, levels, tiles, cells, panicked,
                   first_ok, avail, batches, calls>>

DrivenInit ==
    /\ uri = TestUri
    /\ contents = None
    /\ gate = "pending"
    /\ levels = <<>>
    /\ previous = None
    /\ tiles = <<>>
    /\ cells = <<>>
    /\ panicked = FALSE
    /\ first_ok = None
    /\ pc = "call"
    /\ avail \in Grids
    /\ all_tiles = <<>>
    /\ all_cells = <<>>
    /\ batches = <<>>
    /\ calls = 0

DrivenNext == GenericZoomLevels \/ ApplyNextTiles \/ ApplyFetch

\* the host loop is a sequential program that keeps running until it breaks
DrivenSpec == DrivenInit /\ [][DrivenNext]_vars /\ WF_vars(DrivenNext)

\* any finite set of cells within MaxW x MaxH: sparse, jagged or with holes
Box == Rect(MaxW, MaxH)

SparseInit ==
    /\ uri = TestUri
    /\ contents = None
    /\ gate = "pending"
    /\ levels = <<>>
    /\ previous = None
    /\ tiles = <<>>
    /\ cells = <<>>
    /\ panicked = FALSE
    /\ first_ok = None
    /\ pc = "call"
    /\ avail \in SUBSET Box
    /\ all_tiles = <<>>
    /\ all_cells = <<>>
    /\ batches = <<>>
    /\ calls = 0

SparseSpec == SparseInit /\ [][DrivenNext]_vars /\ WF_vars(DrivenNext)

\* ------------------------------------------- custom_yaml::CustomYamlTiles
Ok(v) == [is_ok |-> TRUE, val |-> v]
Err == [is_ok |-> FALSE]

CustomYamlTiles(tile_set, headers) == [tile_set |-> tile_set, headers |-> headers]

\* the host's baseline headers
default_headers == [k \in {"User-Agent"} |-> "dezoomify-rs"]

\* iterating the tile set: its items in declared order, each a tile
\* reference or an error of the expansion
tile_set_into_iter(tile_set) == tile_set

\* .collect::<Result<Vec<_>, _>>(): the references, or Err at an invalid item
collect(items) ==
    IF \A i \in 1..Len(items) : items[i].is_ok
    THEN Ok([i \in 1..Len(items) |-> items[i].val])
    ELSE Err

\* answers every call with the whole tile set
custom_next_tiles_IgnoresPrevious(self, prev) ==
    LET all == collect(tile_set_into_iter(self.tile_set))
    IN  IF all.is_ok THEN [tiles |-> all.val, panic |-> FALSE]
        ELSE [tiles |-> <<>>, panic |-> TRUE]

\* CustomYamlTiles::next_tiles: nothing once an outcome is handed in, else the
\* collected tile set; .expect("Invalid tiles") panics on Err
custom_next_tiles(self, prev) ==
    IF prev.is_some THEN [tiles |-> <<>>, panic |-> FALSE]
    ELSE LET all == collect(tile_set_into_iter(self.tile_set))
         IN  IF all.is_ok THEN [tiles |-> all.val, panic |-> FALSE]
             ELSE [tiles |-> <<>>, panic |-> TRUE]

\* CustomYamlTiles::http_headers
http_headers(self) == self.headers

\* --------------------------------------------- custom_yaml::CustomDezoomer
\* str::ends_with for a whole piece
ends_with(s, suffix) == Len(s) >= 1 /\ s[Len(s)] = suffix

\* DezoomerInput::with_contents: the contents, or a request to fetch them
with_contents(data_contents) ==
    IF data_contents.is_some THEN Ok(data_contents.val) ELSE Err

\* leaves the headers empty when the document declares none
from_slice_NoDefault(doc) ==
    IF ~doc.parses THEN Err
    ELSE Ok(CustomYamlTiles(doc.tile_set,
                            unwrap_or(doc.headers, [k \in {} |-> ""])))

\* serde_yaml::from_slice into CustomYamlTiles: Err on a malformed document,
\* headers defaulted when the document declares none
from_slice(doc) ==
    IF ~doc.parses THEN Err
    ELSE Ok(CustomYamlTiles(doc.tile_set,
                            unwrap_or(doc.headers, default_headers)))

\* asks for the contents and parses them before looking at the uri
custom_zoom_levels_ParsesFirst(data_uri, data_contents) ==
    IF ~with_contents(data_contents).is_ok
    THEN [gate |-> "needs_data", levels |-> <<>>]
    ELSE LET dezoomer == from_slice(with_contents(data_contents).val)
         IN  IF ~dezoomer.is_ok THEN [gate |-> "parse_error", levels |-> <<>>]
             ELSE IF ~ends_with(data_uri, "tiles.yaml")
             THEN [gate |-> "wrong_dezoomer", levels |-> <<>>]
             ELSE [gate |-> "ok", levels |-> <<dezoomer.val>>]

\* CustomDezoomer::zoom_levels
custom_zoom_levels(data_uri, data_contents) ==
    IF ~ends_with(data_uri, "tiles.yaml")
    THEN [gate |-> "wrong_dezoomer", levels |-> <<>>]
    ELSE IF ~with_contents(data_contents).is_ok
    THEN [gate |-> "needs_data", levels |-> <<>>]
    ELSE LET dezoomer == from_slice(with_contents(data_contents).val)
         IN  IF ~dezoomer.is_ok THEN [gate |-> "parse_error", levels |-> <<>>]
             ELSE [gate |-> "ok", levels |-> <<dezoomer.val>>]

\* ----------------------------------------------- inputs of the custom gate
CustomUriPieces == {"tiles.yaml", "/"}
CustomUris == UNION {[1..n -> CustomUriPieces] : n \in 0..MaxUriLen}

DeclaredTiles ==
    {Ok(TileReference("a", Vec2d(0, 0))), Ok(TileReference("b", Vec2d(4, 0))), Err}
TileSets == UNION {[1..n -> DeclaredTiles] : n \in 0..MaxTiles}
DeclaredHeaders == {None, Some([k \in {"Referer"} |-> "r"])}
Documents ==
    {[parses |-> FALSE]}
        \cup {[parses |-> TRUE, tile_set |-> t, headers |-> h] :
                 t \in TileSets, h \in DeclaredHeaders}

\* CustomDezoomer::zoom_levels on the input
CustomZoomLevels ==
    /\ gate = "pending"
    /\ LET r == custom_zoom_levels(uri, contents)
       IN  gate' = r.gate /\ levels' = r.levels
    /\ UNCHANGED <<uri, contents, previous, tiles, cells, panicked, first_ok,
                   pc, avail, all_tiles, all_cells, batches, calls>>

\* one call of next_tiles on the declarative provider, with any argument
CustomNextTiles(prev) ==
    /\ gate = "ok" /\ ~panicked /\ calls < MaxCalls
    /\ LET r == custom_next_tiles(levels[1], prev)
       IN  tiles' = r.tiles /\ panicked' = r.panic
    /\ previous' = prev
    /\ calls' = calls + 1
    /\ UNCHANGED <<uri, contents, gate, levels, cells, first_ok, pc, avail,
                   all_tiles, all_cells, batches>>

CustomAnyCall == \E prev \in Arguments : CustomNextTiles(prev)

CustomInit ==
    /\ uri \in CustomUris
    /\ contents \in {None} \cup {Some(doc) : doc \in Documents}
    /\ gate = "pending"
    /\ levels = <<>>
    /\ previous = None
    /\ tiles = <<>>
    /\ cells = <<>>
    /\ panicked = FALSE
    /\ first_ok = None
    /\ pc = "idle"
    /\ avail = {}
    /\ all_tiles = <<>>
    /\ all_cells = <<>>
    /\ batches = <<>>
    /\ calls = 0

CustomNext == CustomZoomLevels \/ CustomAnyCall

CustomSpec == CustomInit /\ [][CustomNext]_vars

\* ------------------------------------------------------ shared notions
lvl == levels[1]

RectW == Cardinality({c \in 0..(MaxW - 1) : <<c, 0>> \in avail})
RectH == Cardinality({r \in 0..(MaxH - 1) : <<0, r>> \in avail})
IsRect == RectW >= 1 /\ RectH >= 1 /\ avail = Rect(RectW, RectH)

RowMajor(W, H) == [i \in 1..(W * H) |-> <<(i - 1) % W, (i - 1) \div W>>]

\* the address of cell (c, r): every placeholder piece of the uri substituted
UrlOf(u, c, r) ==
    concat([i \in 1..Len(u) |->
               IF u[i] = "{{X}}" THEN ToString(c)
               ELSE IF u[i] = "{{Y}}" THEN ToString(r) ELSE u[i]])

Done == pc = "done"

\* --------------------------------------------------------------- claims
\* C1: on a W x H rectangle, driven by the protocol under the predicate
\* "every tile of the batch is available", the engine eventually returns the
\* empty batch, and the available references collected are exactly the W*H
\* cells, each once, in row-major order.
C1_RectangleDiscovered ==
    IsRect ~> (/\ Done
               /\ tiles = <<>>
               /\ all_cells = RowMajor(RectW, RectH)
               /\ Len(all_tiles) = RectW * RectH
               /\ \A i \in 1..Len(all_tiles) :
                     all_tiles[i].url = UrlOf(uri, all_cells[i][1], all_cells[i][2]))

C1_Witness ==
    Done /\ avail = Rect(3, 2) /\ Len(all_tiles) = 6 /\ all_tiles[6].url = "2,1"

\* C2 as stated: on a W x H rectangle, when the engine returns the empty
\* batch it is in NextLines with max_x = W-1 and current_y = H-1.
C2_FinalRowIsHMinusOne ==
    (Done /\ IsRect) =>
        /\ lvl.stage.tag = "NextLines"
        /\ lvl.stage.max_x = RectW - 1
        /\ lvl.stage.current_y = RectH - 1

\* C2 amended: on a W x H rectangle, when the engine returns the empty batch
\* it is in NextLines with max_x = W-1 and current_y = H, the row whose probe
\* failed; H-1 is the last row that succeeded.
C2_FinalStage ==
    (Done /\ IsRect) => lvl.stage = StageNextLines(RectW - 1, RectH)

C2_Witness ==
    Done /\ avail = Rect(3, 2) /\ lvl.stage = StageNextLines(2, 2)

\* C3: when the first probe fails, the first call returns exactly [(0,0)], the
\* second call returns the empty batch, no further request is emitted, the
\* engine stays in Init and nothing is discovered.
C3_FirstProbeFails ==
    (gate = "ok" /\ <<0, 0>> \notin avail) =>
        /\ lvl.stage = StageInit
        /\ all_tiles = <<>>
        /\ calls <= 2
        /\ calls >= 1 => batches[1] = << <<0, 0>> >>
        /\ (calls = 1) =>
              tiles = <<TileReference(UrlOf(uri, 0, 0), Vec2d(0, 0))>>
        /\ calls >= 2 => (batches[2] = <<>> /\ tiles = <<>> /\ Done)

C3_Witness ==
    Done /\ <<0, 0>> \notin avail /\ <<1, 0>> \in avail /\ calls = 2

\* the batches a W x H rectangle is asked for, in order
ExpectedBatches(W, H) ==
    [k \in 1..(W + H + 2) |->
        IF k <= W + 1 THEN << <<k - 1, 0>> >>
        ELSE IF k <= W + 1 + H THEN [c \in 1..W |-> <<c - 1, k - (W + 1)>>]
        ELSE <<>>]

\* C4: on a W x H rectangle the batches returned are [(0,0)], ..., [(W,0)],
\* then the whole rows 1..H, then the empty batch; for 1 x 1 the four calls
\* return [(0,0)], [(1,0)], [(0,1)] with max_x = 0, and [].
C4_BatchSequence ==
    IsRect =>
        /\ Len(batches) <= RectW + RectH + 2
        /\ batches = SubSeq(ExpectedBatches(RectW, RectH), 1, Len(batches))
        /\ Done => Len(batches) = RectW + RectH + 2
        /\ (Len(batches) >= 3 /\ RectW = 1) => lvl.stage.max_x = 0

C4_Witness ==
    /\ Done /\ avail = Rect(1, 1)
    /\ batches = << << <<0, 0>> >>, << <<1, 0>> >>, << <<0, 1>> >>, <<>> >>
    /\ lvl.stage = StageNextLines(0, 1)

\* the tile size carried by the first successful outcome, zero if none yet
FirstSize ==
    IF first_ok.is_some /\ first_ok.val.is_some THEN first_ok.val.val
    ELSE Vec2d(0, 0)

PositionOf(cell) == Vec2d(cell[1] * FirstSize.x, cell[2] * FirstSize.y)

\* C5: every reference emitted for cell (col,row) is at (col*ts.x, row*ts.y),
\* ts being the tile size of the first successful outcome (zero while none is
\* known), whatever sizes later outcomes report; the 3 x 2 scenario with size
\* (4,5) yields positions (0,0),(4,0),(8,0),(0,5),(4,5),(8,5).
C5_Positions ==
    /\ \A i \in 1..Len(tiles) : tiles[i].position = PositionOf(cells[i])
    /\ \A i \in 1..Len(all_tiles) : all_tiles[i].position = PositionOf(all_cells[i])
    /\ (Done /\ avail = Rect(3, 2) /\ first_ok = Some(Some(Vec2d(4, 5)))) =>
          all_tiles = <<TileReference("0,0", Vec2d(0, 0)),
                        TileReference("1,0", Vec2d(4, 0)),
                        TileReference("2,0", Vec2d(8, 0)),
                        TileReference("0,1", Vec2d(0, 5)),
                        TileReference("1,1", Vec2d(4, 5)),
                        TileReference("2,1", Vec2d(8, 5))>>

C5_Witness ==
    /\ Done /\ avail = Rect(3, 2) /\ first_ok = Some(Some(Vec2d(4, 5)))
    /\ previous.val.tile_size = Some(Vec2d(1, 2))
    /\ Len(all_tiles) = 6

\* C6: once the stored tile_size is non-empty no call changes it, and it is
\* written only by the transition out of Init on a successful outcome.
C6_TileSizeWrittenOnce ==
    [][gate = "ok" =>
          /\ levels[1].tile_size.is_some =>
                levels'[1].tile_size = levels[1].tile_size
          /\ levels'[1].tile_size # levels[1].tile_size =>
                /\ levels[1].stage = StageInit
                /\ levels'[1].stage = StageFirstLine(1)
                /\ previous'.is_some /\ is_success(previous'.val)
                /\ levels'[1].tile_size = previous'.val.tile_size]_vars

C6_Witness ==
    /\ gate = "ok" /\ lvl.stage.tag = "NextLines" /\ lvl.stage.current_y = 2
    /\ lvl.tile_size = Some(Vec2d(4, 5))
    /\ previous = Some(TileFetchResult(1, 1, Some(Vec2d(1, 2))))

\* C7: next_tiles(None), in whatever state, returns exactly the reference of
\* cell (0,0) at position (0,0) and leaves stage and tile_size unchanged.
C7_NoneLeavesState ==
    [][(gate = "ok" /\ ~previous'.is_some) =>
          /\ levels' = levels
          /\ cells' = << <<0, 0>> >>
          /\ tiles' = <<TileReference(UrlOf(uri, 0, 0), Vec2d(0, 0))>>]_vars

C7_Witness ==
    /\ gate = "ok" /\ ~previous.is_some
    /\ lvl.stage.tag = "NextLines" /\ lvl.tile_size.is_some
    /\ tiles = <<TileReference(UrlOf(uri, 0, 0), Vec2d(0, 0))>>

\* C8: no call of next_tiles panics, whatever the arguments: the first line
\* never stands at column 0, so current_x - 1 does not underflow, and a
\* failing first tile ends in the empty batch.
C8_NeverPanics ==
    /\ ~panicked
    /\ (gate = "ok" /\ lvl.stage.tag = "FirstLine") => lvl.stage.current_x >= 1
    /\ (gate = "ok" /\ lvl.stage.tag = "NextLines") => lvl.stage.max_x >= 0
    /\ (gate = "ok" /\ lvl.stage.tag = "Init" /\ previous.is_some) => tiles = <<>>

C8_Witness ==
    /\ gate = "ok" /\ ~panicked
    /\ lvl.stage = StageNextLines(0, 1)
    /\ previous.is_some /\ ~is_success(previous.val)
    /\ cells = << <<0, 1>> >>

\* C9 as stated: the generic gate accepts an identifier only if it holds both
\* {{X}} and {{Y}}; an accepted identifier yields exactly one level, in Init,
\* without tile size, with the identifier as template.
C9_GateNeedsBothTokens ==
    /\ gate = "ok" => (contains(uri, "{{X}}") /\ contains(uri, "{{Y}}"))
    /\ gate = "wrong_dezoomer" => levels = <<>>
    /\ gate = "ok" => (Len(levels) = 1 /\ lvl.url_template = uri)

\* the references the document declares, in declared order
DeclaredRefs == [i \in 1..Len(contents.val.tile_set) |-> contents.val.tile_set[i].val]
AllDeclaredValid ==
    \A i \in 1..Len(contents.val.tile_set) : contents.val.tile_set[i].is_ok

\* C10 as stated: the first call next_tiles(None) returns every declared
\* reference in order, and every later call returns the empty sequence
\* whatever its argument.
C10_ExactlyOnce ==
    (gate = "ok" /\ ~panicked) =>
        /\ (calls = 1 /\ ~previous.is_some) => tiles = DeclaredRefs
        /\ calls >= 2 => tiles = <<>>

\* C10 amended: the answer depends on the argument alone. A call carrying an
\* outcome returns the empty sequence; a call with None, the first or a later
\* one, returns every declared reference in order, or panics when an item of
\* the expansion is invalid.
C10_ByArgument ==
    (gate = "ok" /\ calls >= 1) =>
        IF previous.is_some THEN tiles = <<>> /\ ~panicked
        ELSE IF AllDeclaredValid THEN tiles = DeclaredRefs /\ ~panicked
        ELSE panicked

C10_Witness ==
    /\ gate = "ok" /\ calls = 3 /\ ~previous.is_some /\ ~panicked
    /\ tiles = <<TileReference("a", Vec2d(0, 0)), TileReference("b", Vec2d(4, 0))>>

\* C11 as stated: an invalid expansion makes construction fail, so on a
\* constructed provider every item is valid and no call of next_tiles fails.
C11_InvalidExpansionFailsConstruction ==
    gate = "ok" =>
        /\ ~panicked
        /\ (calls >= 1 /\ ~previous.is_some) => AllDeclaredValid

\* C12: the declarative gate rejects a uri that does not end with tiles.yaml
\* whatever the contents, then asks for missing contents, then reports a
\* document that does not parse; only when all three pass is there a
\* provider, and then exactly one level.
C12_GateOrder ==
    gate # "pending" =>
        /\ gate = (IF uri = <<>> \/ uri[Len(uri)] # "tiles.yaml"
                       THEN "wrong_dezoomer"
                   ELSE IF ~contents.is_some THEN "needs_data"
                   ELSE IF ~contents.val.parses THEN "parse_error"
                   ELSE "ok")
        /\ Len(levels) = (IF gate = "ok" THEN 1 ELSE 0)

C12_Witness ==
    /\ gate = "wrong_dezoomer" /\ levels = <<>>
    /\ contents.is_some /\ ~contents.val.parses
    /\ Len(uri) = 2

\* C13: without declared headers http_headers() is the default mapping, which
\* has a User-Agent key; with declared headers it is the declared mapping;
\* either way it is the same after any number of next_tiles calls.
C13_Headers ==
    gate = "ok" =>
        IF contents.val.headers.is_some
        THEN http_headers(lvl) = contents.val.headers.val
        ELSE "User-Agent" \in DOMAIN http_headers(lvl)

C13_Witness ==
    /\ gate = "ok" /\ calls >= 2 /\ ~contents.val.headers.is_some
    /\ http_headers(lvl)["User-Agent"] = "dezoomify-rs"

\* the whole row y of an engine whose last column is max_x
WholeRow(max_x, y) == [i \in 1..(max_x + 1) |-> <<i - 1, y>>]

\* C14: in NextLines max_x never changes, and every non-empty batch returned
\* in answer to an outcome is one whole row: max_x + 1 references, columns
\* 0..max_x ascending, all in the current row; the first is row 1 and each
\* successful outcome advances the row by exactly 1.
C14_WholeRows ==
    [][/\ (gate = "ok" /\ levels[1].stage.tag = "NextLines") =>
              /\ levels'[1].stage.tag = "NextLines"
              /\ levels'[1].stage.max_x = levels[1].stage.max_x
       /\ (gate = "ok" /\ previous'.is_some
               /\ levels'[1].stage.tag = "NextLines") =>
              /\ levels[1].stage.tag \in {"FirstLine", "NextLines"}
              /\ levels[1].stage.tag = "FirstLine" =>
                    (levels'[1].stage.current_y = 1 /\ cells' # <<>>)
              /\ levels[1].stage.tag = "NextLines" =>
                    /\ levels'[1].stage.current_y =
                          levels[1].stage.current_y
                              + (IF is_success(previous'.val) THEN 1 ELSE 0)
                    /\ is_success(previous'.val) <=> cells' # <<>>
              /\ cells' # <<>> =>
                    /\ cells' = WholeRow(levels'[1].stage.max_x,
                                         levels'[1].stage.current_y)
                    /\ Len(tiles') = levels'[1].stage.max_x + 1]_vars

C14_Witness ==
    /\ gate = "ok" /\ lvl.stage = StageNextLines(2, 2)
    /\ previous.is_some /\ is_success(previous.val)
    /\ cells = << <<0, 2>>, <<1, 2>>, <<2, 2>> >>

\* the engine has just answered a failing outcome with the empty batch
Ended ==
    /\ gate = "ok" /\ lvl.stage.tag \in {"Init", "NextLines"}
    /\ previous.is_some /\ ~is_success(previous.val) /\ tiles = <<>>

\* C15 as stated: once a failing outcome in Init or NextLines was answered
\* with the empty batch, every later call, whatever its argument, returns the
\* empty batch and leaves the state unchanged.
C15_TerminalWhateverArgument ==
    [][Ended => (tiles' = <<>> /\ levels' = levels)]_vars

\* C15 amended: no terminal state is recorded. After such an empty batch a
\* further failing outcome again returns the empty batch and leaves the state
\* unchanged, a call with None returns [(0,0)] and leaves the state unchanged,
\* and a successful outcome resumes discovery: from Init to FirstLine with
\* [(1,0)], in NextLines with the next whole row.
C15_TerminalByArgument ==
    [][Ended =>
          IF ~previous'.is_some
              THEN cells' = << <<0, 0>> >> /\ levels' = levels
          ELSE IF ~is_success(previous'.val)
              THEN tiles' = <<>> /\ levels' = levels
          ELSE IF levels[1].stage.tag = "Init"
              THEN /\ levels'[1].stage = StageFirstLine(1)
                   /\ cells' = << <<1, 0>> >>
          ELSE /\ levels'[1].stage =
                      StageNextLines(levels[1].stage.max_x,
                                     levels[1].stage.current_y + 1)
               /\ cells' = WholeRow(levels[1].stage.max_x,
                                    levels[1].stage.current_y + 1)]_vars

C15_Witness ==
    /\ gate = "ok" /\ lvl.stage = StageNextLines(1, 1)
    /\ previous.is_some /\ ~is_success(previous.val) /\ tiles = <<>>
    /\ lvl.tile_size.is_some

\* C20: the stage is Init, FirstLine with current_x >= 1, or NextLines with
\* current_y >= 1; it only moves Init -> FirstLine -> NextLines, current_x
\* and current_y grow by exactly 1 per successful outcome, and max_x is the
\* last current_x minus 1.
StageOk(st) ==
    \/ st = StageInit
    \/ \E x \in 1..MaxX : st = StageFirstLine(x)
    \/ \E mx \in 0..(MaxX - 1), y \in 1..MaxY : st = StageNextLines(mx, y)

StageMove(old, new, prev) ==
    \/ new = old
    \/ /\ old = StageInit /\ new = StageFirstLine(1)
       /\ prev.is_some /\ is_success(prev.val)
    \/ /\ old.tag = "FirstLine" /\ new = StageFirstLine(old.current_x + 1)
       /\ prev.is_some /\ is_success(prev.val)
    \/ /\ old.tag = "FirstLine" /\ new = StageNextLines(old.current_x - 1, 1)
       /\ prev.is_some /\ ~is_success(prev.val)
    \/ /\ old.tag = "NextLines"
       /\ new = StageNextLines(old.max_x, old.current_y + 1)
       /\ prev.is_some /\ is_success(prev.val)

C20_StageMovesForward ==
    /\ [](gate = "ok" => StageOk(lvl.stage))
    /\ [][gate = "ok" =>
             /\ StageMove(levels[1].stage, levels'[1].stage, previous')
             /\ (previous'.is_some /\ is_success(previous'.val)) =>
                   levels'[1].stage # levels[1].stage]_vars

C20_Witness ==
    /\ gate = "ok" /\ lvl.stage = StageNextLines(MaxX - 1, MaxY)
    /\ previous.is_some /\ is_success(previous.val)

\* the cells of a batch, and whether the host saw the batch fail
CellsOf(b) == {b[k] : k \in 1..Len(b)}
Failed(b) == \E k \in 1..Len(b) : b[k] \notin avail

\* C16: the empty batch is returned only for a failing outcome received in
\* Init or in NextLines; None and successful outcomes get a non-empty batch, a
\* failing outcome in FirstLine gets the whole row 1, and no cell of a batch
\* that failed is ever emitted again.
C16_FailureIsBoundary ==
    /\ [](\A i \in 1..Len(batches) : \A j \in (i + 1)..Len(batches) :
             Failed(batches[i]) => CellsOf(batches[i]) \cap CellsOf(batches[j]) = {})
    /\ [][(gate = "ok" /\ pc = "call") =>
             /\ cells' = <<>> <=>
                   /\ previous.is_some /\ ~is_success(previous.val)
                   /\ levels[1].stage.tag \in {"Init", "NextLines"}
             /\ (previous.is_some /\ ~is_success(previous.val)
                     /\ levels[1].stage.tag = "FirstLine") =>
                   cells' = WholeRow(levels[1].stage.current_x - 1, 1)]_vars

C16_Witness ==
    /\ Done /\ avail = {<<0, 0>>, <<1, 0>>, <<0, 1>>}
    /\ Len(batches) = 5 /\ Failed(batches[3]) /\ Failed(batches[4])

RECURSIVE SumLen(_)
SumLen(bs) == IF bs = <<>> THEN 0 ELSE Len(Head(bs)) + SumLen(Tail(bs))

RECURSIVE Flatten(_)
Flatten(bs) == IF bs = <<>> THEN <<>> ELSE Head(bs) \o Flatten(Tail(bs))

\* C17: on a W x H rectangle the engine is called W+H+2 times up to the empty
\* batch; it emits W+1 single-tile probes of row 0 and H whole rows, W*H+W+1
\* references in all, W+1 of them for tiles that do not exist: (W,0) and the
\* W cells of row H.
C17_Cost ==
    (Done /\ IsRect) =>
        /\ calls = RectW + RectH + 2
        /\ Cardinality({k \in 1..Len(batches) :
              Len(batches[k]) = 1 /\ batches[k][1][2] = 0}) = RectW + 1
        /\ Cardinality({k \in 1..Len(batches) :
              batches[k] # <<>> /\ batches[k][1][2] >= 1
                  /\ Len(batches[k]) = RectW}) = RectH
        /\ SumLen(batches) = RectW * RectH + RectW + 1
        /\ {c \in CellsOf(Flatten(batches)) : c \notin avail}
              = {<<RectW, 0>>} \cup {<<x, RectH>> : x \in 0..(RectW - 1)}
        /\ SumLen(batches) - Len(all_cells) = RectW + 1

C17_Witness ==
    Done /\ avail = Rect(3, 2) /\ calls = 7 /\ SumLen(batches) = 10

\* the host loop can take a step: the gate is still to run, or the loop
\* stands at its call or at its fetch
CanStep == gate = "pending" \/ (gate = "ok" /\ pc \in {"call", "fetch"})

\* C18: for every finite set of available cells the run reaches the empty
\* batch: until then the loop can always step, and the number of calls, which
\* every round of the loop raises, is bounded by the number of available cells
\* plus 3. Every cell asked for lies in the box the engine has bounded: row 0
\* up to column max_x + 1, later rows up to max_x.
C18_SparseTerminatesInBox ==
    /\ Done \/ CanStep
    /\ calls <= Cardinality(avail) + 3
    /\ ~panicked
    /\ (gate = "ok" /\ lvl.stage.tag = "FirstLine") =>
          \A c \in CellsOf(Flatten(batches)) :
              c[2] = 0 /\ c[1] <= lvl.stage.current_x
    /\ (gate = "ok" /\ lvl.stage.tag = "NextLines") =>
          \A c \in CellsOf(Flatten(batches)) :
              /\ c[2] <= lvl.stage.current_y
              /\ c[2] = 0 => c[1] <= lvl.stage.max_x + 1
              /\ c[2] >= 1 => c[1] <= lvl.stage.max_x

C18_Witness ==
    /\ Done /\ avail = {<<0, 0>>, <<0, 1>>, <<2, 0>>, <<2, 1>>}
    /\ lvl.stage = StageNextLines(0, 2)

\* C19: driven by the protocol, no cell is emitted twice: over all batches of
\* a run every (col,row) appears in at most one batch, once.
C19_NoCellTwice ==
    Cardinality(CellsOf(Flatten(batches))) = SumLen(batches)

C19_Witness ==
    /\ Done /\ avail = {<<0, 0>>, <<1, 0>>, <<0, 1>>}
    /\ SumLen(batches) = 5

====
